---- MODULE Spec2Model ----
(***************************************************************************)
(* GraphRAG comparison demo: app/gradio_ui.py (the process, the request    *)
(* handler process_query) and app/graphrag_core.py (GraphRAGApp: start-up, *)
(* query_graphrag, close_connection, and the Cypher retrieval_query of the *)
(* vector+cypher retriever).                                               *)
(*                                                                         *)
(* Python strings are modelled as sequences: a question is a sequence of   *)
(* characters, a response is a sequence of text pieces (the literal parts  *)
(* of the f-string and the interpolated values), so that strip(), the      *)
(* labels and the error text are computed and not assumed.                 *)
(***************************************************************************)
EXTENDS Integers, Sequences, FiniteSets, TLC

\* ------------------------------------------------------------------ bounds
MaxLen == 2
MaxK == 2
MaxEdges == 4

\* ------------------------------------------------------- inputs (bounded)
Whitespace == {" ", "\t"}
Alphabet == Whitespace \cup {"q"}
Answers == {"A1", "A2"}
Errors == {"E1", "E2"}
NoError == "none"

RECURSIVE StringsUpTo(_)
StringsUpTo(n) ==
    IF n = 0 THEN {<<>>}
    ELSE LET shorter == StringsUpTo(n - 1)
         IN  shorter \cup {Append(s, c) : s \in shorter, c \in Alphabet}

Queries == StringsUpTo(MaxLen)
TopKs == 1..MaxK

\* What GraphRAG.search does for one pipeline in one request: it returns a
\* result carrying an answer, or raises an Exception whose str() is val.
Outcomes == [ok : {TRUE}, val : Answers] \cup [ok : {FALSE}, val : Errors]
Envs == [v : Outcomes, vc : Outcomes]

\* --------------------------------------------------------------- state
VARIABLES
    pc,        \* position of the main program of gradio_ui.py
    driver,    \* self.driver: "none" (attribute not set), "open", "closed"
    opens,     \* how many times neo4j.GraphDatabase.driver(...) returned
    exc,       \* the exception the main program is unwinding with, or NoError
    indexed,   \* whether the text_embeddings index exists in the store
    last,      \* the last request process_query handled, with what it returned
    edges,     \* the relationships of the knowledge graph
    rpc,       \* "idle" / "done": whether the retrieval query has run
    seeds,     \* the nodes the vector index returned (rows "node")
    chunks,    \* collect(DISTINCT chunk)
    rels,      \* collect(DISTINCT rel)
    info       \* the returned context string, as pieces

appVars == <<pc, driver, opens, exc, indexed, last>>
retrVars == <<edges, rpc, seeds, chunks, rels, info>>
vars == <<pc, driver, opens, exc, indexed, last, edges, rpc, seeds, chunks, rels, info>>

\* ------------------------------------------------------ process_query
RECURSIVE lstrip(_)
lstrip(s) ==
    IF s = <<>> THEN s
    ELSE IF Head(s) \in Whitespace THEN lstrip(Tail(s)) ELSE s

RECURSIVE rstrip(_)
rstrip(s) ==
    IF s = <<>> THEN s
    ELSE IF s[Len(s)] \in Whitespace THEN rstrip(SubSeq(s, 1, Len(s) - 1)) ELSE s

strip_identity(s) == s

\* str.strip(): leading and trailing whitespace removed
strip(s) == rstrip(lstrip(s))

EnterQuestion == <<"Please enter a question.">>
VectorLabel == "**Vector Retriever Response:**\n\n"
VectorCypherLabel == "**Vector + Cypher Retriever Response:**\n\n"
ErrorPrefix == "Error processing query: "

\* f"**Vector Retriever Response:**\n\n{v_result.answer}"
vector_response(answer) == <<VectorLabel, answer>>
\* f"**Vector + Cypher Retriever Response:**\n\n{vc_result.answer}"
vc_response(answer) == <<VectorCypherLabel, answer>>
\* f"Error processing query: {str(e)}"
error_msg(e) == <<ErrorPrefix, e>>

\* The two search statements of the try block, in program order.
SearchOrder == <<"v", "vc">>

search_call_default_k(rag, query_text, top_k) ==
    [rag |-> rag, query_text |-> query_text,
     top_k |-> IF rag = "vc" THEN 1 ELSE top_k]

\* self.<rag>_rag.search(query_text, retriever_config={'top_k': top_k}, ...)
search_call(rag, query_text, top_k) ==
    [rag |-> rag, query_text |-> query_text, top_k |-> top_k]

\* Index in order of the first search that raises; Len(order) + 1 when none does.
RECURSIVE FirstRaise(_, _, _)
FirstRaise(order, env, i) ==
    IF i > Len(order) THEN i
    ELSE IF env[order[i]].ok THEN FirstRaise(order, env, i + 1) ELSE i

except_first_only(e) == e = "E1"

\* "except Exception as e": every exception a search raises is an Exception.
except_Exception(e) == e \in Errors

\* The try/except of query_graphrag, with its search statements run in `order`:
\* the searches run one after the other until one raises; when none does the
\* two responses are formatted, otherwise the handler formats the error.
try_block(order, query_text, top_k, env) ==
    LET stop == FirstRaise(order, env, 1)
        n == IF stop > Len(order) THEN Len(order) ELSE stop
        calls == [i \in 1..n |-> search_call(order[i], query_text, top_k)]
    IN  IF stop > Len(order)
        THEN [kind |-> "return",
              value |-> <<vector_response(env.v.val), vc_response(env.vc.val)>>,
              exc |-> NoError, calls |-> calls]
        ELSE LET e == env[order[stop]].val
             IN  IF except_Exception(e)
                 THEN [kind |-> "return",
                       value |-> <<error_msg(e), error_msg(e)>>,
                       exc |-> NoError, calls |-> calls]
                 ELSE [kind |-> "raise", value |-> <<>>, exc |-> e, calls |-> calls]

query_graphrag(query_text, top_k, env) == try_block(SearchOrder, query_text, top_k, env)

process_query(query, top_k, env) ==
    IF strip(query) = <<>>
    THEN [kind |-> "return", value |-> <<EnterQuestion, EnterQuestion>>,
          exc |-> NoError, calls |-> <<>>]
    ELSE query_graphrag(query, top_k, env)

NoRequest ==
    [handled |-> FALSE, query |-> <<>>, top_k |-> 1,
     env |-> [v |-> [ok |-> TRUE, val |-> "A1"], vc |-> [ok |-> TRUE, val |-> "A1"]],
     out |-> [kind |-> "return", value |-> <<>>, exc |-> NoError, calls |-> <<>>]]

\* ------------------------------------------- the main program, start-up
\* An exception outside the try of __main__: the process ends with it.
Die(e) ==
    /\ pc' = "exited"
    /\ exc' = e

\* GraphRAGApp.setup_neo4j_connection, the first step of GraphRAGApp()
setup_neo4j_connection ==
    /\ pc = "setup_neo4j_connection"
    /\ \E credentials \in BOOLEAN, connects \in BOOLEAN :
          IF ~credentials
          THEN /\ Die("ValueError")
               /\ UNCHANGED <<driver, opens>>
          ELSE IF ~connects
          THEN /\ Die("DriverError")
               /\ UNCHANGED <<driver, opens>>
          ELSE /\ driver' = "open"
               /\ opens' = opens + 1
               /\ pc' = "setup_models"
               /\ exc' = exc
    /\ UNCHANGED <<indexed, last, retrVars>>

\* GraphRAGApp.setup_models: the clients are built, then the index is created;
\* an error of create_vector_index is printed and swallowed.
setup_models ==
    /\ pc = "setup_models"
    /\ \E clients \in BOOLEAN, created \in BOOLEAN :
          IF ~clients
          THEN /\ Die("ClientError")
               /\ indexed' = indexed
          ELSE /\ indexed' = (indexed \/ created)
               /\ pc' = "setup_retrievers"
               /\ exc' = exc
    /\ UNCHANGED <<driver, opens, last, retrVars>>

\* GraphRAGApp.setup_retrievers
setup_retrievers ==
    /\ pc = "setup_retrievers"
    /\ \E built \in BOOLEAN :
          IF built
          THEN /\ pc' = "setup_graphrag_pipelines"
               /\ exc' = exc
          ELSE Die("RetrieverError")
    /\ UNCHANGED <<driver, opens, indexed, last, retrVars>>

\* GraphRAGApp.setup_graphrag_pipelines, the last step of GraphRAGApp()
setup_graphrag_pipelines ==
    /\ pc = "setup_graphrag_pipelines"
    /\ \E built \in BOOLEAN :
          IF built
          THEN /\ pc' = "blocks"
               /\ exc' = exc
          ELSE Die("PipelineError")
    /\ UNCHANGED <<driver, opens, indexed, last, retrVars>>

\* create_gradio_interface after GraphRAGApp(): the gr.Blocks layout and the
\* two event bindings, then "return interface, app".
build_interface ==
    /\ pc = "blocks"
    /\ \E built \in BOOLEAN :
          IF built
          THEN /\ pc' = "launch"
               /\ exc' = exc
          ELSE Die("InterfaceError")
    /\ UNCHANGED <<driver, opens, indexed, last, retrVars>>

\* interface.launch(...) inside the try of __main__: the server starts, or
\* launch raises and control goes to the finally clause.
launch ==
    /\ pc = "launch"
    /\ \E started \in BOOLEAN :
          IF started
          THEN /\ pc' = "serving"
               /\ exc' = exc
          ELSE /\ pc' = "finally"
               /\ exc' = "LaunchError"
    /\ UNCHANGED <<driver, opens, indexed, last, retrVars>>

\* One submission (button click or Enter) handled by process_query.
ProcessQuery ==
    /\ pc = "serving"
    /\ \E query \in Queries, top_k \in TopKs, env \in Envs :
          last' = [handled |-> TRUE, query |-> query, top_k |-> top_k, env |-> env,
                   out |-> process_query(query, top_k, env)]
    /\ UNCHANGED <<pc, driver, opens, exc, indexed, retrVars>>

\* launch returns (the server is stopped) or raises while serving; either way
\* control reaches the finally clause.
leave_launch ==
    /\ pc = "serving"
    /\ \E e \in {NoError, "ServeError"} :
          /\ pc' = "finally"
          /\ exc' = e
    /\ UNCHANGED <<driver, opens, indexed, last, retrVars>>

\* finally: app.close_connection(), then the process ends (with the pending
\* exception, if any).
close_connection ==
    /\ pc = "finally"
    /\ driver' = IF driver # "none" THEN "closed" ELSE driver
    /\ pc' = "exited"
    /\ UNCHANGED <<opens, exc, indexed, last, retrVars>>

InitApp ==
    /\ pc = "setup_neo4j_connection"
    /\ driver = "none"
    /\ opens = 0
    /\ exc = NoError
    /\ indexed \in BOOLEAN
    /\ last = NoRequest

RetrievalIdle ==
    /\ rpc = "idle"
    /\ seeds = <<>>
    /\ chunks = <<>>
    /\ rels = <<>>
    /\ info = <<>>

Init ==
    /\ InitApp
    /\ edges = {}
    /\ RetrievalIdle

Next ==
    \/ setup_neo4j_connection
    \/ setup_models
    \/ setup_retrievers
    \/ setup_graphrag_pipelines
    \/ build_interface
    \/ launch
    \/ ProcessQuery
    \/ leave_launch
    \/ close_connection

Spec == Init /\ [][Next]_vars

\* --------------------------------------- the vector+cypher retrieval_query
\* The store: Chunk nodes (all carry an embedding and a text), entity nodes,
\* FROM_CHUNK relationships from an entity to the chunk it was extracted
\* from, and other relationships between entities.  A relationship is a
\* record; two relationships between the same nodes differ in a field.
Chunks == {"c1", "c2"}
Entities == {"e1", "e2", "e3", "e4"}
FROM_CHUNK == "FROM_CHUNK"
Null == "null"

CandidateEdges ==
    [type : {FROM_CHUNK}, src : Entities, dst : Chunks]
        \cup [type : {"REL"}, src : Entities, dst : Entities]
        \cup {[type |-> "REL", src |-> "e1", dst |-> "e2", details |-> "d"]}

RECURSIVE SubsetsUpTo(_, _)
SubsetsUpTo(S, n) ==
    IF n = 0 THEN {{}}
    ELSE LET smaller == SubsetsUpTo(S, n - 1)
         IN  smaller \cup {T \cup {x} : T \in smaller, x \in S}

Graphs == SubsetsUpTo(CandidateEdges, MaxEdges)

\* The similarity order of the chunks for a query: most similar first.
Rankings ==
    {r \in [1..Cardinality(Chunks) -> Chunks] : \A i, j \in DOMAIN r : r[i] = r[j] => i = j}

\* db.index.vector.queryNodes(index, top_k, vector): the top_k most similar
\* nodes of the index, most similar first.
VectorSearch(ranking, top_k) ==
    SubSeq(ranking, 1, IF top_k < Len(ranking) THEN top_k ELSE Len(ranking))

\* ---- sequences
RECURSIVE Concat(_)
Concat(ss) == IF ss = <<>> THEN <<>> ELSE Head(ss) \o Concat(Tail(ss))

Reverse(s) == [i \in 1..Len(s) |-> s[Len(s) + 1 - i]]

RECURSIVE SeqOfSet(_)
SeqOfSet(S) ==
    IF S = {} THEN <<>>
    ELSE LET x == CHOOSE y \in S : TRUE IN <<x>> \o SeqOfSet(S \ {x})

\* ---- properties
Property(x, key) == IF key \in DOMAIN x THEN x[key] ELSE Null
coalesce(v, default) == IF v = Null THEN default ELSE v
NodeName(n) == n
ChunkText(c) == <<"text", c>>

\* ---- MATCH (chunk)<-[:FROM_CHUNK]-()-[relList:!FROM_CHUNK]-{1,2}()
MinHops == 1
MaxHops == 2

HopRangeOfComment == (MinHops + 1)..(MaxHops + 1)

\* the quantifier {1,2} of the relationship pattern
HopRange == MinHops..MaxHops

Incident(e, n) == e.src = n \/ e.dst = n
OtherEnd(e, n) == IF e.src = n THEN e.dst ELSE e.src

\* The relationship lists of length len that leave n along relationships whose
\* type is not FROM_CHUNK, in either direction, no relationship used twice in
\* one match (those in `used` are bound elsewhere in the pattern).
RECURSIVE TrailsOfLen(_, _, _)
TrailsOfLen(n, len, used) ==
    IF len = 0 THEN {<<>>}
    ELSE UNION {{<<e>> \o t : t \in TrailsOfLen(OtherEnd(e, n), len - 1, used \cup {e})} :
                e \in {x \in edges \ used : x.type # FROM_CHUNK /\ Incident(x, n)}}

\* The rows of MATCH for one chunk row, then UNWIND relList AS rel.
UnwoundRowsOf(chunk) ==
    LET links == SeqOfSet({f \in edges : f.type = FROM_CHUNK /\ f.dst = chunk})
        ofLink(f) ==
            LET relLists == SeqOfSet(UNION {TrailsOfLen(f.src, h, {f}) : h \in HopRange})
            IN  Concat([j \in 1..Len(relLists) |->
                          [m \in 1..Len(relLists[j]) |->
                              [chunk |-> chunk, rel |-> relLists[j][m]]]])
    IN  Concat([i \in 1..Len(links) |-> ofLink(links[i])])

\* WITH node AS chunk MATCH ... UNWIND ...: the rows of every seed, in an order
\* the database is free to choose (here: as enumerated, or reversed).
UnwoundRows(nodes, reversed) ==
    LET rows == Concat([i \in 1..Len(nodes) |-> UnwoundRowsOf(nodes[i])])
    IN  IF reversed THEN Reverse(rows) ELSE rows

collect_all(vals) == vals

\* collect(DISTINCT x): the values in row order, each value once
RECURSIVE collect_distinct(_)
collect_distinct(vals) ==
    IF vals = <<>> THEN <<>>
    ELSE LET front == collect_distinct(SubSeq(vals, 1, Len(vals) - 1))
             x == vals[Len(vals)]
         IN  IF \E i \in DOMAIN front : front[i] = x THEN front ELSE Append(front, x)

\* The context string is kept as the sequence of the strings concatenated
\* into it, each a sequence of pieces.
\* apoc.text.join(list, delimiter)
RECURSIVE text_join(_, _)
text_join(list, delimiter) ==
    IF list = <<>> THEN <<>>
    ELSE IF Len(list) = 1 THEN list
    ELSE <<Head(list), delimiter>> \o text_join(Tail(list), delimiter)

TextHeader == <<"=== text ===\n">>
RelsHeader == <<"\n\n=== kg_rels ===\n">>
Delimiter == <<"\n---\n">>

\* startNode(r).name + ' - ' + type(r) + '(' + coalesce(r.details, '') + ')' + ' -> ' + endNode(r).name
rel_line(r) ==
    <<NodeName(r.src), " - ", r.type, "(", coalesce(Property(r, "details"), ""), ")",
      " -> ", NodeName(r.dst)>>

\* RETURN '=== text ===\n' + join(texts) + '\n\n=== kg_rels ===\n' + join(lines) AS info
format_info(cs, rs) ==
    <<TextHeader>> \o text_join([i \in 1..Len(cs) |-> ChunkText(cs[i])], Delimiter)
        \o <<RelsHeader>> \o text_join([i \in 1..Len(rs) |-> rel_line(rs[i])], Delimiter)

\* One run of the vector+cypher retriever's query for a question.
Retrieve ==
    /\ rpc = "idle"
    /\ \E ranking \in Rankings, top_k \in TopKs, reversed \in BOOLEAN :
          \E nodes \in {VectorSearch(ranking, top_k)} :
          \E rows \in {UnwoundRows(nodes, reversed)} :
          \E cs \in {collect_distinct([i \in 1..Len(rows) |-> rows[i].chunk])} :
          \E rs \in {collect_distinct([i \in 1..Len(rows) |-> rows[i].rel])} :
              /\ seeds' = nodes
              /\ chunks' = cs
              /\ rels' = rs
              /\ info' = format_info(cs, rs)
    /\ rpc' = "done"
    /\ UNCHANGED <<edges, appVars>>

\* The retrieval query is run by a serving process against a populated store.
InitRetrieval ==
    /\ pc = "serving"
    /\ driver = "open"
    /\ opens = 1
    /\ exc = NoError
    /\ indexed = TRUE
    /\ last = NoRequest
    /\ edges \in Graphs
    /\ RetrievalIdle

NextRetrieval == Retrieve

SpecRetrieval == InitRetrieval /\ [][NextRetrieval]_vars

\* ================================================================ claims
Blank(q) == \A i \in DOMAIN q : q[i] \in Whitespace
NonBlank(q) == \E i \in DOMAIN q : q[i] \notin Whitespace
IsErrorMessage(text) == \E i \in DOMAIN text : text[i] = ErrorPrefix
Answered == last.handled /\ NonBlank(last.query) /\ last.out.kind = "return"
Range(s) == {s[i] : i \in DOMAIN s}
Count(s, x) == Cardinality({i \in DOMAIN s : s[i] = x})

\* C1: failure isolation.  For a non-blank question, when exactly one of the
\* two pipelines fails, the returned pair holds an error message in the
\* failing side's position and the other pipeline's normal answer in the other
\* position; both positions hold error messages only if both pipelines failed.
C1_FailureIsolation ==
    Answered =>
        LET v == last.env.v
            vc == last.env.vc
            pair == last.out.value
        IN  /\ (~v.ok /\ vc.ok) =>
                  (IsErrorMessage(pair[1]) /\ pair[2] = <<VectorCypherLabel, vc.val>>)
            /\ (v.ok /\ ~vc.ok) =>
                  (pair[1] = <<VectorLabel, v.val>> /\ IsErrorMessage(pair[2]))
            /\ (IsErrorMessage(pair[1]) /\ IsErrorMessage(pair[2])) => (~v.ok /\ ~vc.ok)

\* C2: a blank or whitespace-only question is answered with two copies of
\* the "please enter a question" prompt, and no search of either pipeline
\* (hence no external service) is invoked for that request.
C2_BlankShortCircuit ==
    (last.handled /\ Blank(last.query)) =>
        /\ last.out.kind = "return"
        /\ last.out.value = <<EnterQuestion, EnterQuestion>>
        /\ last.out.calls = <<>>

\* C2 witness: a whitespace-only question of positive length was handled.
C2_Witness ==
    /\ last.handled
    /\ Len(last.query) = MaxLen
    /\ Blank(last.query)
    /\ last.out.value = <<EnterQuestion, EnterQuestion>>

\* C3: for a non-blank question, whatever k and whichever pipelines fail, the
\* handler returns a pair of two strings and propagates no exception.
C3_NoEscape ==
    (last.handled /\ NonBlank(last.query)) =>
        /\ last.out.kind = "return"
        /\ last.out.exc = NoError
        /\ Len(last.out.value) = 2
        /\ \A i \in 1..2 : last.out.value[i] \in Seq(STRING) /\ last.out.value[i] # <<>>

\* C3 witness: a non-blank question whose two pipelines both fail, with
\* different errors, was handled, and the process went on to serve.
C3_Witness ==
    /\ last.handled
    /\ NonBlank(last.query)
    /\ ~last.env.v.ok
    /\ ~last.env.vc.ok
    /\ last.env.v.val # last.env.vc.val
    /\ last.out.kind = "return"
    /\ pc = "serving"

\* C4: for a non-blank question each element of the returned pair starts
\* with the label of its retrieval strategy, for answers and for errors.
C4_Labelled ==
    Answered =>
        /\ Head(last.out.value[1]) = VectorLabel
        /\ Head(last.out.value[2]) = VectorCypherLabel

\* C5: whenever both pipelines run, both searches receive the same question
\* text and the same k, which are the question and k given to the handler.
C5_SameArguments ==
    last.handled =>
        \A i, j \in DOMAIN last.out.calls :
            (last.out.calls[i].rag = "v" /\ last.out.calls[j].rag = "vc") =>
                /\ last.out.calls[i].query_text = last.out.calls[j].query_text
                /\ last.out.calls[i].top_k = last.out.calls[j].top_k
                /\ last.out.calls[i].query_text = last.query
                /\ last.out.calls[i].top_k = last.top_k

\* C5 witness: both pipelines ran for a question that strip() would change
\* and for the largest k.
C5_Witness ==
    /\ last.handled
    /\ Len(last.out.calls) = 2
    /\ last.out.calls[1].rag = "v"
    /\ last.out.calls[2].rag = "vc"
    /\ strip(last.query) # last.query
    /\ last.top_k = MaxK

\* C6: order independence.  The returned pair is the one the same try block
\* returns when its two searches are executed in the opposite order.
C6_OrderIndependent ==
    Answered =>
        last.out.value =
            try_block(Reverse(SearchOrder), last.query, last.top_k, last.env).value

\* C7: the connection is opened at most once, and whenever it was opened it
\* is released by the time the process has ended.
C7_ReleasedAtExit ==
    /\ opens <= 1
    /\ (pc = "exited" /\ opens > 0) => driver = "closed"

\* ---- retrieval
\* The entities linked to a chunk by a FROM_CHUNK relationship.
Linked(c) == {f.src : f \in {x \in edges : x.type = FROM_CHUNK /\ x.dst = c}}

\* The relationships on some path of length 1 or 2 that starts at an entity
\* linked to a seed and uses no FROM_CHUNK relationship.
WithinTwoHops ==
    {e \in edges :
        /\ e.type # FROM_CHUNK
        /\ \E c \in Range(seeds) : \E n \in Linked(c) :
              \/ Incident(e, n)
              \/ \E e1 \in edges :
                    /\ e1.type # FROM_CHUNK
                    /\ Incident(e1, n)
                    /\ (Incident(e, e1.src) \/ Incident(e, e1.dst))}

\* The seeds that have a linked entity with a relationship other than FROM_CHUNK.
ExpandedSeeds ==
    {c \in Range(seeds) :
        \E n \in Linked(c) : \E e \in edges : e.type # FROM_CHUNK /\ Incident(e, n)}

TextSection(text) ==
    LET k == CHOOSE i \in DOMAIN text : text[i] = RelsHeader
    IN  SubSeq(text, 2, k - 1)

RelsSection(text) ==
    LET k == CHOOSE i \in DOMAIN text : text[i] = RelsHeader
    IN  SubSeq(text, k + 1, Len(text))

\* C8: deduplication.  Every collected relationship is listed exactly once in
\* kg_rels and every collected chunk's text exactly once in the text section,
\* however many seeds and paths reach it.
C8_Deduplicated ==
    rpc = "done" =>
        /\ \A r \in WithinTwoHops :
              Count(rels, r) = 1 /\ Count(RelsSection(info), rel_line(r)) = 1
        /\ \A c \in ExpandedSeeds :
              Count(chunks, c) = 1 /\ Count(TextSection(info), ChunkText(c)) = 1
        /\ \A i, j \in DOMAIN rels : rels[i] = rels[j] => i = j
        /\ \A i, j \in DOMAIN chunks : chunks[i] = chunks[j] => i = j

\* C8 witness: two seeds share a linked entity, and a relationship is reached
\* both from the two seeds and along paths of different lengths.
C8_Witness ==
    /\ rpc = "done"
    /\ Len(seeds) = 2
    /\ Linked(seeds[1]) \cap Linked(seeds[2]) # {}
    /\ Len(chunks) = 2
    /\ Len(rels) = 2
    /\ Len(UnwoundRows(seeds, FALSE)) >= 8

\* C9: a seed chunk with no linked entity still contributes its own text to
\* the text section, and no relationship line.
C9_UnlinkedSeedText ==
    rpc = "done" =>
        \A c \in Range(seeds) :
            Linked(c) = {} =>
                /\ Count(TextSection(info), ChunkText(c)) = 1
                /\ (Range(seeds) = {c} => RelsSection(info) = <<>>)

====
